---- MODULE Spec2Model ----
(***************************************************************************)
(* A model of badfish.py: the command-line client that changes the boot    *)
(* order of a server through its management controller, creates the        *)
(* configuration job, waits for it to be scheduled and power-cycles the    *)
(* host.  The program is sequential; every controller request is one step  *)
(* of the model and its response is a nondeterministic input of that step. *)
(* A step runs the code from one request up to the next one (or up to the  *)
(* end of the process).                                                    *)
(***************************************************************************)
EXTENDS Integers, Sequences, FiniteSets, TLC

(***************************************************************************)
(* Bounds of the model.                                                    *)
(***************************************************************************)
\* longest boot-device list the controller reports
MaxDevices == 2
\* longest interface list of the interfaces file
MaxInterfaces == 2
\* longest device list and interface list of ReconcileSpec
MaxReconcile == 3
\* longest job queue the controller reports
MaxJobs == 2
\* request counters stop counting here (they saturate, the program goes on)
MaxCount == 14

(***************************************************************************)
(* Program constants.                                                      *)
(***************************************************************************)
BOOT_SOURCES_URI == "/redfish/v1/Systems/System.Embedded.1/BootSources/Settings"
BIOS_URI == "/redfish/v1/Systems/System.Embedded.1/Bios/Settings"
\* get_job_status: retries = 10
retries == 10
\* reboot_server: elif count == 10
force_off_count == 10
Scheduled == "Task successfully scheduled."

(***************************************************************************)
(* Inputs.                                                                 *)
(***************************************************************************)
Names == {"NIC.1", "NIC.2", "HD.1"}
\* status codes a request may return
Statuses == {200, 204, 400}
\* messages of a job resource; "<none>": the body has no Message
Messages == {Scheduled, "Pending", "<none>"}
PowerStates == {"On", "Off", "PoweringOff"}
HostTypes == {"<none>", "foreman", "director", "bogus"}
PathStates == {"<none>", "missing", "present"}

Min(a, b) == IF a < b THEN a ELSE b

\* the boot sequence as the controller reports it: any names, in any list
\* order, the Index fields a permutation of 0..n-1
IndexPermutations(n) == {f \in [1..n -> 0..(n - 1)] : \A i, j \in 1..n : f[i] = f[j] => i = j}
DeviceListsOfLen(n) ==
    {[j \in 1..n |-> [Name |-> nm[j], Index |-> ix[j]]] :
        nm \in [1..n -> Names], ix \in IndexPermutations(n)}
DeviceLists == UNION {DeviceListsOfLen(n) : n \in 0..MaxDevices}
\* "a,b,c".split(",") has at least one element
InterfaceLists == UNION {[1..n -> Names] : n \in 1..MaxInterfaces}
\* the job queue as get_job_queue returns it: n job identifiers, the i-th
\* written i (the identifiers are opaque to the program)
JobQueues == {[i \in 1..n |-> i] : n \in 0..MaxJobs}

RequestKinds ==
    {"GET_bios", "GET_bootsources", "PATCH_bootsources", "PATCH_pxe", "PATCH_bios",
     "GET_jobs", "DELETE_job", "POST_job", "GET_job", "GET_system",
     "POST_GracefulRestart", "POST_ForceOff", "POST_On"}

VARIABLES
    args,          \* the parsed command line
    pc,            \* where the program is
    exit_code,     \* -1 while running, then the exit status of the process
    interfaces,    \* change_boot_order: the desired interface list
    boot_seq,      \* change_boot_order: "UefiBootSeq" or "BootSeq"
    devices_read,  \* the device list as get_boot_devices returned it
    boot_devices,  \* change_boot_order: the device list, updated in place
    change,        \* change_boot_order: change
    definitions,   \* check_boot: the two interface lists of the interfaces file
    report,        \* check_boot: what it reported ("" before)
    job_queue,     \* clear_job_queue: _job_queue
    deleted,       \* clear_job_queue: how many of _job_queue were deleted
    queue_empty,   \* whether the most recent job-queue read was empty
    patched_uri,   \* the settings URI the invocation patched ("" if none)
    patch_status,  \* the status of that PATCH (0 if none)
    job_uri,       \* TargetSettingsURI of the job POST ("" if none)
    job_created,   \* the job POST returned 200
    job_scheduled, \* a job-status read returned 200 and the scheduled message
    attempt,       \* get_job_status: passes of the loop begun
    job_reads,     \* the <<status, message>> of every job-status read so far
    count,         \* reboot_server: count
    power_state,   \* reboot_server: data["PowerState"] ("" before any read)
    initial_state, \* the power state reboot_server read first ("" before)
    reset_status,  \* the status of the latest power-reset action (0 if none)
    failure,       \* the input failure the program met ("" if none)
    sent           \* requests issued, per kind

vars == <<args, pc, exit_code, interfaces, boot_seq, devices_read, boot_devices,
          change, definitions, report, job_queue, deleted, queue_empty, patched_uri, patch_status,
          job_uri, job_created, job_scheduled, attempt, job_reads, count, power_state,
          initial_state, reset_status, failure, sent>>

cbo_vars == <<interfaces, boot_seq, devices_read, boot_devices, change>>
check_vars == <<definitions, report>>
job_vars == <<job_queue, deleted, queue_empty, job_uri, job_created, job_scheduled,
              attempt, job_reads>>
patch_vars == <<patched_uri, patch_status>>
reboot_vars == <<count, power_state, initial_state, reset_status>>

\* check_boot has not loaded the interfaces file
NoDefinitions == [foreman |-> <<>>, director |-> <<>>]

\* the command lines: an option that the selected branch of main never reads
\* is left at its default
AllArgs ==
    [reboot_only : BOOLEAN, boot_to : BOOLEAN, check_boot : BOOLEAN, pxe : BOOLEAN,
     interfaces_path : PathStates, host_type : HostTypes]
Args ==
    {a \in AllArgs :
        /\ a.reboot_only => ~a.boot_to
        /\ (a.reboot_only \/ a.boot_to) => (~a.check_boot /\ a.interfaces_path = "<none>")
        /\ (a.reboot_only \/ a.boot_to \/ a.check_boot) => (~a.pxe /\ a.host_type = "<none>")}

Init ==
    /\ args \in Args
    /\ pc = "main"
    /\ exit_code = -1
    /\ interfaces = <<>>
    /\ boot_seq = ""
    /\ devices_read = <<>>
    /\ boot_devices = <<>>
    /\ change = FALSE
    /\ definitions = NoDefinitions
    /\ report = ""
    /\ job_queue = <<>>
    /\ deleted = 0
    /\ queue_empty = FALSE
    /\ patched_uri = ""
    /\ patch_status = 0
    /\ job_uri = ""
    /\ job_created = FALSE
    /\ job_scheduled = FALSE
    /\ attempt = 0
    /\ job_reads = <<>>
    /\ count = 0
    /\ power_state = ""
    /\ initial_state = ""
    /\ reset_status = 0
    /\ failure = ""
    /\ sent = [k \in RequestKinds |-> 0]

\* one more request of kind k
Request(k) == sent' = [sent EXCEPT ![k] = Min(@ + 1, MaxCount)]

\* sys.exit(code), main's return value handed to sys.exit, or an uncaught
\* exception (python exits with 1)
Exit(code) ==
    /\ pc' = "exit"
    /\ exit_code' = code

(***************************************************************************)
(* main: the dispatch on the command line.                                 *)
(***************************************************************************)
\* a dispatch that does not know --check-boot
flow_without_check_boot ==
    IF args.reboot_only THEN "reboot_only"
    ELSE IF args.boot_to THEN "boot_to"
    ELSE "boot_order"

\* which branch of main the command line selects
Flow ==
    IF args.reboot_only THEN "reboot_only"
    ELSE IF args.boot_to THEN "boot_to"
    ELSE IF args.check_boot THEN "check_boot"
    ELSE "boot_order"

\* lines 392-403: the input failure main finds in the boot-order branch, before
\* it calls change_boot_order
main_failure ==
    IF Flow # "boot_order" THEN ""
    ELSE IF args.host_type \notin {"<none>", "foreman", "director"}
    THEN "unknown_host_type"
    ELSE IF args.interfaces_path = "missing" THEN "missing_file"
    ELSE ""

Main ==
    /\ pc = "main"
    /\ CASE Flow = "reboot_only" -> pc' = "reboot_server" /\ UNCHANGED exit_code
         [] Flow = "boot_to" -> pc' = "boot_to_device" /\ UNCHANGED exit_code
         [] Flow = "check_boot" -> pc' = "check_boot" /\ UNCHANGED exit_code
         [] OTHER ->
              IF args.host_type \notin {"<none>", "foreman", "director"}
              THEN Exit(1)     \* raise argparse.ArgumentTypeError
              ELSE IF args.interfaces_path = "present"
              THEN pc' = "change_boot_order" /\ UNCHANGED exit_code
              ELSE Exit(1)     \* no -i, or no such file: return 1
    /\ failure' = main_failure
    /\ UNCHANGED <<args, cbo_vars, check_vars, job_vars, patch_vars, reboot_vars, sent>>

(***************************************************************************)
(* change_boot_order                                                       *)
(***************************************************************************)
\* lines 60-68: loading the interfaces file and looking up the host's key; no
\* request is made here
change_boot_order_load ==
    /\ pc = "change_boot_order"
    /\ \/ /\ Exit(1)                          \* yaml.YAMLError: sys.exit(1)
          /\ failure' = "malformed_document"
          /\ UNCHANGED interfaces
       \/ Exit(1) /\ UNCHANGED <<interfaces, failure>>    \* no such key: KeyError
       \/ \E d \in InterfaceLists :
            /\ interfaces' = d
            /\ pc' = "get_bios_boot_mode"
            /\ UNCHANGED <<exit_code, failure>>
    /\ UNCHANGED <<args, boot_seq, devices_read, boot_devices, change, check_vars,
                   job_vars, patch_vars, reboot_vars, sent>>

get_boot_seq(bios_boot_mode) ==
    IF bios_boot_mode = "Uefi" THEN "UefiBootSeq" ELSE "BootSeq"

\* the body of the Bios resource: not JSON, without the attribute, or a mode
BiosBodies == {"not_json", "no_attribute", "Uefi", "Bios"}

get_bios_boot_mode ==
    /\ pc = "get_bios_boot_mode"
    /\ Request("GET_bios")
    /\ \E body \in BiosBodies :
         IF body \in {"not_json", "no_attribute"}
         THEN Exit(1) /\ UNCHANGED boot_seq       \* sys.exit(1) / KeyError
         ELSE /\ boot_seq' = get_boot_seq(body)
              /\ pc' = "get_boot_devices"
              /\ UNCHANGED exit_code
    /\ UNCHANGED <<args, failure, interfaces, devices_read, boot_devices, change, check_vars,
                   job_vars, patch_vars, reboot_vars>>

get_boot_devices ==
    /\ pc = "get_boot_devices"
    /\ Request("GET_bootsources")
    /\ \/ Exit(1) /\ UNCHANGED <<devices_read, boot_devices>>   \* not JSON: ValueError
       \/ \E body \in DeviceLists :
            /\ devices_read' = body
            /\ boot_devices' = body
            /\ pc' = "reconcile"
            /\ UNCHANGED exit_code
    /\ UNCHANGED <<args, failure, interfaces, boot_seq, change, check_vars, job_vars, patch_vars, reboot_vars>>

\* a variant of FirstMatch: the inner loop without its break, so that the last
\* device called name is the one found
last_match(devs, name) ==
    IF \E j \in 1..Len(devs) : devs[j].Name = name
    THEN CHOOSE j \in 1..Len(devs) :
            /\ devs[j].Name = name
            /\ \A k \in (j + 1)..Len(devs) : devs[k].Name # name
    ELSE 0

\* lines 75-76, 80: the position of the first device called name, 0 if there is
\* none
FirstMatch(devs, name) ==
    IF \E j \in 1..Len(devs) : devs[j].Name = name
    THEN CHOOSE j \in 1..Len(devs) :
            /\ devs[j].Name = name
            /\ \A k \in 1..(j - 1) : devs[k].Name # name
    ELSE 0

\* a variant of Reassign: the index is written whether it differs or not
reassign_always(dev, i) == TRUE
\* a variant of Reassign: only a device that comes later is moved
reassign_only_later(dev, i) == dev.Index > i

\* one pass of the outer loop, for i in range(len(interfaces)), on the device
\* found by the inner loop: does it get index i?
Reassign(dev, i) == dev.Index # i

\* a variant of SetIndex: positions counted from one
set_index_one_based(devs, j, i) == [devs EXCEPT ![j].Index = i + 1]

\* line 78: device[u"Index"] = i, on the device at position j of the list
SetIndex(devs, j, i) == [devs EXCEPT ![j].Index = i]

RECURSIVE ReconcileFrom(_, _, _, _)
ReconcileFrom(ifs, i, devs, chg) ==
    IF i >= Len(ifs) THEN [devices |-> devs, change |-> chg]
    ELSE LET j == FirstMatch(devs, ifs[i + 1]) IN
         IF j # 0 /\ Reassign(devs[j], i)
         THEN ReconcileFrom(ifs, i + 1, SetIndex(devs, j, i), TRUE)
         ELSE ReconcileFrom(ifs, i + 1, devs, chg)

\* lines 73-80
Reconcile(ifs, devs) == ReconcileFrom(ifs, 0, devs, FALSE)

\* lines 89-92: what a boot-order PATCH answered with status does next
boot_order_patch_outcome(status) == "return"

\* lines 73-96: the reconciliation, then the PATCH or the early exit
change_boot_order_patch ==
    /\ pc = "reconcile"
    /\ LET r == Reconcile(interfaces, boot_devices) IN
         /\ boot_devices' = r.devices
         /\ change' = r.change
         /\ IF r.change
            THEN /\ Request("PATCH_bootsources")
                 /\ patched_uri' = BOOT_SOURCES_URI
                 /\ \E status \in Statuses :
                      /\ patch_status' = status
                      /\ IF boot_order_patch_outcome(status) = "return"
                         THEN pc' = "change_boot_order_return" /\ UNCHANGED exit_code
                         ELSE Exit(1)
            ELSE /\ Exit(0)           \* sys.exit()
                 /\ UNCHANGED <<sent, patch_vars>>
    /\ UNCHANGED <<args, failure, interfaces, boot_seq, devices_read, check_vars, job_vars, reboot_vars>>

\* line 96: the locals of change_boot_order are gone
change_boot_order_return ==
    /\ pc = "change_boot_order_return"
    /\ pc' = "set_next_boot_pxe"
    /\ interfaces' = <<>>
    /\ boot_seq' = ""
    /\ devices_read' = <<>>
    /\ boot_devices' = <<>>
    /\ change' = FALSE
    /\ UNCHANGED <<args, failure, exit_code, check_vars, job_vars, patch_vars, reboot_vars, sent>>

\* lines 404-405 and 98-113
set_next_boot_pxe ==
    /\ pc = "set_next_boot_pxe"
    /\ IF args.pxe
       THEN /\ Request("PATCH_pxe")
            /\ \E status \in Statuses :
                 IF status = 200
                 THEN pc' = "get_job_queue" /\ UNCHANGED exit_code
                 ELSE Exit(1)
       ELSE /\ pc' = "get_job_queue"
            /\ UNCHANGED <<exit_code, sent>>
    /\ UNCHANGED <<args, failure, cbo_vars, check_vars, job_vars, patch_vars, reboot_vars>>

(***************************************************************************)
(* boot_to_device                                                          *)
(***************************************************************************)
boot_to_device ==
    /\ pc = "boot_to_device"
    /\ Request("PATCH_bios")
    /\ patched_uri' = BIOS_URI
    /\ \E status \in Statuses :
         /\ patch_status' = status
         /\ IF status = 200
            THEN pc' = "get_job_queue" /\ UNCHANGED exit_code
            ELSE Exit(1)
    /\ UNCHANGED <<args, failure, cbo_vars, check_vars, job_vars, reboot_vars>>

(***************************************************************************)
(* The job queue and the configuration job.                                *)
(***************************************************************************)
\* lines 383-385 / 406-408 with get_job_queue (136-142)
get_job_queue ==
    /\ pc = "get_job_queue"
    /\ Request("GET_jobs")
    /\ \/ Exit(1) /\ UNCHANGED <<job_queue, queue_empty>>       \* not JSON: ValueError
       \/ \E q \in JobQueues :
            /\ job_queue' = q
            /\ queue_empty' = (q = <<>>)
            /\ pc' = IF q # <<>> THEN "clear_job_queue" ELSE "create_bios_config_job"
            /\ UNCHANGED exit_code
    /\ deleted' = 0
    /\ UNCHANGED <<args, failure, cbo_vars, check_vars, job_uri, job_created, job_scheduled, attempt, job_reads,
                   patch_vars, reboot_vars>>

\* lines 124-127: one DELETE of the loop; its response is not looked at
clear_job_queue_delete ==
    /\ pc = "clear_job_queue"
    /\ deleted < Len(job_queue)
    /\ Request("DELETE_job")
    /\ deleted' = deleted + 1
    /\ UNCHANGED <<args, failure, pc, exit_code, cbo_vars, check_vars, job_queue, queue_empty, job_uri,
                   job_created, job_scheduled, attempt, job_reads,
                   patch_vars, reboot_vars>>

\* a clear_job_queue that does not look at the queue it read again
queue_check_outcome_unchecked(q) == "return"

\* lines 129-133: what clear_job_queue does with the queue it read again
queue_check_outcome(q) == IF q = <<>> THEN "return" ELSE "exit"

\* lines 128-134: the queue read after the deletions
clear_job_queue_check ==
    /\ pc = "clear_job_queue"
    /\ deleted = Len(job_queue)
    /\ Request("GET_jobs")
    /\ \/ Exit(1) /\ UNCHANGED queue_empty                      \* not JSON: ValueError
       \/ \E q \in JobQueues :
            /\ queue_empty' = (q = <<>>)
            /\ IF queue_check_outcome(q) = "return"
               THEN pc' = "create_bios_config_job" /\ UNCHANGED exit_code
               ELSE Exit(1)
    /\ UNCHANGED <<args, failure, cbo_vars, check_vars, job_queue, deleted, job_uri, job_created,
                   job_scheduled, attempt, job_reads, patch_vars, reboot_vars>>

\* a variant of job_uri_after_boot_order: the uri that change_boot_order patched
job_uri_boot_sources == BOOT_SOURCES_URI

\* line 386: the uri main hands to create_bios_config_job after boot_to_device
job_uri_after_boot_to == BIOS_URI
\* line 409: the uri main hands to create_bios_config_job after change_boot_order
job_uri_after_boot_order == BIOS_URI

\* lines 153-159: what a job POST answered with status does next
create_job_outcome(status) == IF status = 200 THEN "created" ELSE "exit"

\* lines 144-164
create_bios_config_job ==
    /\ pc = "create_bios_config_job"
    /\ Request("POST_job")
    /\ job_uri' = IF Flow = "boot_to" THEN job_uri_after_boot_to
                  ELSE job_uri_after_boot_order
    /\ \E status \in Statuses :
         IF create_job_outcome(status) = "created"
         THEN /\ job_created' = TRUE
              /\ \/ pc' = "get_job_status" /\ UNCHANGED exit_code
                 \/ Exit(1)           \* no JID_ in the response: AttributeError
         ELSE /\ Exit(1)
              /\ UNCHANGED job_created
    /\ UNCHANGED <<args, failure, cbo_vars, check_vars, job_queue, deleted, queue_empty, job_scheduled,
                   attempt, job_reads, patch_vars, reboot_vars>>

\* a variant of job_status_outcome: no sys.exit(1) after the loop
job_status_outcome_no_exit(status, message, n) ==
    IF status # 200 THEN "exit"
    ELSE IF message = "<none>" THEN "exception"
    ELSE IF message = Scheduled THEN "return"
    ELSE IF n < retries THEN "retry"
    ELSE "return"

\* a variant of job_status_outcome: one pass too many
job_status_outcome_extra_read(status, message, n) ==
    IF status # 200 THEN "exit"
    ELSE IF message = "<none>" THEN "exception"
    ELSE IF message = Scheduled THEN "return"
    ELSE IF n <= retries THEN "retry"
    ELSE "exit"

\* a variant of job_status_outcome: the budget is tested before the message
job_status_outcome_budget_first(status, message, n) ==
    IF status # 200 THEN "exit"
    ELSE IF message = "<none>" THEN "exception"
    ELSE IF n >= retries THEN "exit"
    ELSE IF message = Scheduled THEN "return"
    ELSE "retry"

\* a variant of job_status_outcome: a failed read is tried again
job_status_outcome_retry_failed(status, message, n) ==
    IF status = 200 /\ message = "<none>" THEN "exception"
    ELSE IF status = 200 /\ message = Scheduled THEN "return"
    ELSE IF n < retries THEN "retry"
    ELSE "exit"

\* lines 168-189: what the read that makes n reads in all does next, given
\* its status and message
job_status_outcome(status, message, n) ==
    IF status # 200 THEN "exit"
    ELSE IF message = "<none>" THEN "exception"
    ELSE IF message = Scheduled THEN "return"
    ELSE IF n < retries THEN "retry"
    ELSE "exit"

\* lines 166-189: one read of the loop, and what follows it up to the next
\* request
get_job_status ==
    /\ pc = "get_job_status"
    /\ Request("GET_job")
    /\ attempt' = attempt + 1
    /\ \E status \in Statuses, message \in Messages :
         LET o == job_status_outcome(status, message, attempt + 1) IN
         /\ job_reads' = Append(job_reads, <<status, message>>)
         /\ job_scheduled' = (status = 200 /\ message = Scheduled)
         /\ CASE o = "return" -> pc' = "reboot_server" /\ UNCHANGED exit_code
              [] o = "retry" -> UNCHANGED <<pc, exit_code>>
              [] OTHER -> Exit(1)
    /\ UNCHANGED <<args, failure, cbo_vars, check_vars, job_queue, deleted, queue_empty, job_uri,
                   job_created, patch_vars, reboot_vars>>

(***************************************************************************)
(* reboot_server                                                           *)
(***************************************************************************)
\* a reboot_server that powers on a host in any state other than On
first_state_outcome_power_on_unless_on(state) ==
    IF state = "On" THEN "graceful_restart" ELSE "power_on"

\* lines 199, 273, 287-289: what reboot_server does with the state it read
\* first
first_state_outcome(state) ==
    IF state = "On" THEN "graceful_restart"
    ELSE IF state = "Off" THEN "power_on"
    ELSE "exit"

\* lines 192-199, 273, 287-289: the first read of the power state
reboot_server_read ==
    /\ pc = "reboot_server"
    /\ Request("GET_system")
    /\ \E state \in PowerStates :
         LET o == first_state_outcome(state) IN
         /\ power_state' = state
         /\ initial_state' = state
         /\ CASE o = "graceful_restart" -> pc' = "graceful_restart" /\ UNCHANGED exit_code
              [] o = "power_on" -> pc' = "power_on_from_off" /\ UNCHANGED exit_code
              [] OTHER -> Exit(1)
    /\ UNCHANGED <<args, failure, cbo_vars, check_vars, job_vars, patch_vars, count, reset_status>>

\* lines 207-217: what follows the answer to the graceful restart
graceful_outcome(status) == IF status = 204 THEN "poll" ELSE "exit"

\* lines 200-218
reboot_server_graceful ==
    /\ pc = "graceful_restart"
    /\ Request("POST_GracefulRestart")
    /\ \E status \in Statuses :
         /\ reset_status' = status
         /\ IF graceful_outcome(status) = "poll"
            THEN pc' = "poll" /\ count' = 0 /\ UNCHANGED exit_code
            ELSE Exit(1) /\ UNCHANGED count
    /\ UNCHANGED <<args, failure, cbo_vars, check_vars, job_vars, patch_vars, power_state,
                   initial_state>>

\* a loop that gives up waiting when the budget is spent and goes on to power
\* the host on
poll_outcome_break_on_budget(state, c) ==
    IF state = "Off" \/ c = force_off_count THEN "break" ELSE "continue"

\* lines 226-259: what the loop does with the state it read
poll_outcome(state, c) ==
    IF state = "Off" THEN "break"
    ELSE IF c = force_off_count THEN "force_off"
    ELSE "continue"

\* lines 219-229, 256-259: one read of the while loop
reboot_server_poll ==
    /\ pc = "poll"
    /\ Request("GET_system")
    /\ \E state \in PowerStates :
         LET o == poll_outcome(state, count) IN
         /\ power_state' = state
         /\ pc' = CASE o = "break" -> "power_on"
                    [] o = "force_off" -> "force_off"
                    [] OTHER -> "poll"
         /\ count' = IF o = "continue" THEN count + 1 ELSE count
    /\ UNCHANGED <<args, failure, exit_code, cbo_vars, check_vars, job_vars, patch_vars,
                   initial_state, reset_status>>

\* a forced power-off whose answer is not looked at
force_off_outcome_unchecked(status) == "poll"

\* lines 244-254: what follows the answer to the forced power-off
force_off_outcome(status) == IF status = 204 THEN "poll" ELSE "exit"

\* lines 230-254: the forced power-off; after a 204 the while loop goes round
\* again with count as it is
reboot_server_force_off ==
    /\ pc = "force_off"
    /\ Request("POST_ForceOff")
    /\ \E status \in Statuses :
         /\ reset_status' = status
         /\ IF force_off_outcome(status) = "poll"
            THEN pc' = "poll" /\ UNCHANGED exit_code
            ELSE Exit(1)
    /\ UNCHANGED <<args, failure, cbo_vars, check_vars, job_vars, patch_vars, count, power_state,
                   initial_state>>

\* lines 267-272 and 281-286: what follows the answer to the power-On action
power_on_outcome(status) == IF status = 204 THEN "return" ELSE "exit"

\* lines 261-272, then main returns 0
reboot_server_power_on ==
    /\ pc = "power_on"
    /\ Request("POST_On")
    /\ \E status \in Statuses :
         /\ reset_status' = status
         /\ IF power_on_outcome(status) = "return" THEN Exit(0) ELSE Exit(1)
    /\ UNCHANGED <<args, failure, cbo_vars, check_vars, job_vars, patch_vars, count, power_state,
                   initial_state>>

\* lines 273-286, then main returns 0
reboot_server_power_on_from_off ==
    /\ pc = "power_on_from_off"
    /\ Request("POST_On")
    /\ \E status \in Statuses :
         /\ reset_status' = status
         /\ IF power_on_outcome(status) = "return" THEN Exit(0) ELSE Exit(1)
    /\ UNCHANGED <<args, failure, cbo_vars, check_vars, job_vars, patch_vars, count, power_state,
                   initial_state>>

(***************************************************************************)
(* check_boot                                                              *)
(***************************************************************************)
\* lines 307-308
check_boot_bios ==
    /\ pc = "check_boot"
    /\ Request("GET_bios")
    /\ \E body \in BiosBodies :
         IF body \in {"not_json", "no_attribute"}
         THEN Exit(1) /\ UNCHANGED boot_seq
         ELSE /\ boot_seq' = get_boot_seq(body)
              /\ pc' = "check_boot_devices"
              /\ UNCHANGED exit_code
    /\ UNCHANGED <<args, failure, interfaces, devices_read, boot_devices, change, check_vars,
                   job_vars, patch_vars, reboot_vars>>

\* sorted(devs, key=lambda x: x["Index"]): a stable sort
RECURSIVE SortedByIndex(_)
SortedByIndex(devs) ==
    IF devs = <<>> THEN <<>>
    ELSE LET m == CHOOSE j \in 1..Len(devs) :
                     /\ \A k \in 1..Len(devs) : devs[j].Index <= devs[k].Index
                     /\ \A k \in 1..(j - 1) : devs[k].Index # devs[j].Index
             rest == [k \in 1..(Len(devs) - 1) |-> IF k < m THEN devs[k] ELSE devs[k + 1]]
         IN <<devs[m]>> \o SortedByIndex(rest)

\* lines 324-329 on the sorted slice: "match", "no_match", or "IndexError" when
\* a device's Index is past the end of the profile's list
RECURSIVE MatchSorted(_, _)
MatchSorted(sorted, profile) ==
    IF sorted = <<>> THEN "match"
    ELSE IF Head(sorted).Index >= Len(profile) THEN "IndexError"
    ELSE IF Head(sorted).Name = profile[Head(sorted).Index + 1]
         THEN MatchSorted(Tail(sorted), profile)
    ELSE "no_match"

\* lines 322-329 for one host: n is len(interfaces), the number of profiles
\* loaded so far
ProfileMatch(devs, profile, n) ==
    MatchSorted(SortedByIndex(SubSeq(devs, 1, Min(n, Len(devs)))), profile)

\* lines 319-338: <<>> stands for a key the file does not have
Classify(devs, defs) ==
    IF defs.foreman = <<>> THEN "KeyError"
    ELSE LET f == ProfileMatch(devs, defs.foreman, 1) IN
         IF f = "IndexError" THEN "IndexError"
         ELSE IF f = "match" THEN "foreman"
         ELSE IF defs.director = <<>> THEN "KeyError"
         ELSE LET d == ProfileMatch(devs, defs.director, 2) IN
              IF d = "IndexError" THEN "IndexError"
              ELSE IF d = "match" THEN "director"
              ELSE "no_match"

ProfileEntries == InterfaceLists \cup {<<>>}

\* lines 309-344, then main returns 0 whatever check_boot returned
check_boot_devices ==
    /\ pc = "check_boot_devices"
    /\ Request("GET_bootsources")
    /\ \/ Exit(1) /\ UNCHANGED <<devices_read, boot_devices, check_vars, failure>>
       \/ \E body \in DeviceLists :
            /\ devices_read' = body
            /\ boot_devices' = body
            /\ CASE args.interfaces_path = "<none>" ->
                      /\ report' = "listing" /\ Exit(0)
                      /\ UNCHANGED <<definitions, failure>>
                 [] args.interfaces_path = "missing" ->      \* open() raises
                      /\ Exit(1) /\ failure' = "missing_file"
                      /\ UNCHANGED check_vars
                 [] OTHER ->
                      \/ /\ Exit(0)                          \* YAMLError: return 1
                         /\ failure' = "malformed_document"
                         /\ UNCHANGED check_vars
                      \/ \E f \in ProfileEntries, d \in ProfileEntries :
                           LET c == Classify(body, [foreman |-> f, director |-> d]) IN
                           /\ definitions' = [foreman |-> f, director |-> d]
                           /\ IF c \in {"KeyError", "IndexError"}
                              THEN Exit(1) /\ UNCHANGED report
                              ELSE Exit(0) /\ report' = c
                           /\ UNCHANGED failure
    /\ UNCHANGED <<args, interfaces, boot_seq, change, job_vars, patch_vars, reboot_vars>>

(***************************************************************************)
(* The program.                                                            *)
(***************************************************************************)
Next ==
    \/ Main
    \/ change_boot_order_load
    \/ get_bios_boot_mode
    \/ get_boot_devices
    \/ change_boot_order_patch
    \/ change_boot_order_return
    \/ set_next_boot_pxe
    \/ boot_to_device
    \/ get_job_queue
    \/ clear_job_queue_delete
    \/ clear_job_queue_check
    \/ create_bios_config_job
    \/ get_job_status
    \/ reboot_server_read
    \/ reboot_server_graceful
    \/ reboot_server_poll
    \/ reboot_server_force_off
    \/ reboot_server_power_on
    \/ reboot_server_power_on_from_off
    \/ check_boot_bios
    \/ check_boot_devices

Spec == Init /\ [][Next]_vars

\* the program is one thread and every request returns: a step that can be
\* taken is taken
FairSpec == Spec /\ WF_vars(Next)

(***************************************************************************)
(* The reconciliation of change_boot_order on its own, on longer lists:    *)
(* the program has read the interfaces file and the boot devices and is    *)
(* about to run lines 73-96.                                               *)
(***************************************************************************)
ReconcileDeviceLists == UNION {DeviceListsOfLen(n) : n \in 0..MaxReconcile}
ReconcileInterfaceLists == UNION {[1..n -> Names] : n \in 1..MaxReconcile}

ReconcileInit ==
    /\ args = [reboot_only |-> FALSE, boot_to |-> FALSE, check_boot |-> FALSE,
               pxe |-> FALSE, interfaces_path |-> "present", host_type |-> "foreman"]
    /\ pc = "reconcile"
    /\ exit_code = -1
    /\ interfaces \in ReconcileInterfaceLists
    /\ boot_seq = "BootSeq"
    /\ devices_read \in ReconcileDeviceLists
    /\ boot_devices = devices_read
    /\ change = FALSE
    /\ definitions = NoDefinitions
    /\ report = ""
    /\ job_queue = <<>>
    /\ deleted = 0
    /\ queue_empty = FALSE
    /\ patched_uri = ""
    /\ patch_status = 0
    /\ job_uri = ""
    /\ job_created = FALSE
    /\ job_scheduled = FALSE
    /\ attempt = 0
    /\ job_reads = <<>>
    /\ count = 0
    /\ power_state = ""
    /\ initial_state = ""
    /\ reset_status = 0
    /\ failure = ""
    /\ sent = [k \in RequestKinds |->
                 IF k \in {"GET_bios", "GET_bootsources"} THEN 1 ELSE 0]

ReconcileNext == change_boot_order_patch

ReconcileSpec == ReconcileInit /\ [][ReconcileNext]_vars

(***************************************************************************)
(* Vocabulary of the properties.                                           *)
(***************************************************************************)
InReboot ==
    pc \in {"reboot_server", "graceful_restart", "poll", "force_off", "power_on",
            "power_on_from_off"}
\* power-reset actions issued
Resets == sent["POST_GracefulRestart"] + sent["POST_ForceOff"] + sent["POST_On"]
\* nothing was written to the job queue or the power state
NoJobOrPowerWrites ==
    sent["DELETE_job"] = 0 /\ sent["POST_job"] = 0 /\ Resets = 0
NoWrites ==
    /\ NoJobOrPowerWrites
    /\ sent["PATCH_bootsources"] = 0 /\ sent["PATCH_pxe"] = 0 /\ sent["PATCH_bios"] = 0

Pending(read) == read[1] = 200 /\ read[2] \notin {Scheduled, "<none>"}
IsScheduled(read) == read[1] = 200 /\ read[2] = Scheduled
AllPending(n) == \A i \in 1..n : Pending(job_reads[i])

SortedNames(devs) == [i \in 1..Len(devs) |-> SortedByIndex(devs)[i].Name]
NameSet(ifs) == {ifs[i] : i \in 1..Len(ifs)}
UniqueNames(devs) ==
    \A i, j \in 1..Len(devs) : devs[i].Name = devs[j].Name => i = j
UniqueEntries(ifs) == \A i, j \in 1..Len(ifs) : ifs[i] = ifs[j] => i = j
\* the desired list is the current order, position for position
DesiredIsCurrent(ifs, devs) ==
    /\ Len(ifs) <= Len(devs)
    /\ \A i \in 1..Len(ifs) : SortedNames(devs)[i] = ifs[i]
\* the desired list and the current order differ at a position both have
Differs(ifs, devs) ==
    \E i \in 1..Min(Len(ifs), Len(devs)) : SortedNames(devs)[i] # ifs[i]
\* the desired list rearranges the devices that hold the first indices
RearrangesFirst(ifs, devs) ==
    /\ Len(ifs) <= Len(devs)
    /\ NameSet(ifs) = {SortedNames(devs)[i] : i \in 1..Len(ifs)}
\* lines 73-96 have run on the lists in interfaces and devices_read
Reconciled ==
    /\ Flow = "boot_order"
    /\ interfaces # <<>>
    /\ \/ pc = "change_boot_order_return"
       \/ pc = "exit" /\ sent["GET_bootsources"] > 0 /\ (change \/ exit_code = 0)
KeepsIndexOfOthers ==
    \A j \in 1..Len(devices_read) :
        devices_read[j].Name \notin NameSet(interfaces)
            => boot_devices[j].Index = devices_read[j].Index

(***************************************************************************)
(* C1                                                                      *)
(***************************************************************************)
\* C1: reboot_server always terminates: once entered, it eventually issues the
\* power-On action or stops with a fatal failure, whatever the controller
\* answers.
C1_RebootTerminates ==
    InReboot ~> (sent["POST_On"] > 0 \/ (pc = "exit" /\ exit_code # 0))

(***************************************************************************)
(* C2                                                                      *)
(***************************************************************************)
\* C2: in a run of reboot_server the forced power-off is issued at most once.
C2_ForceOffAtMostOnce == sent["POST_ForceOff"] <= 1

(***************************************************************************)
(* C3                                                                      *)
(***************************************************************************)
\* C3: after a settings PATCH (boot order or one-time boot) that returned a
\* non-success status, no job DELETE, job POST or power reset is issued and the
\* process does not end with exit code 0.
C3_FailedPatchIsFatal ==
    patch_status >= 300 =>
        /\ NoJobOrPowerWrites
        /\ pc = "exit" => exit_code # 0

(***************************************************************************)
(* C4                                                                      *)
(***************************************************************************)
\* C4: outside --reboot-only, reboot_server is entered and a power reset issued
\* only after the job POST returned 200 and a job-status read returned 200 with
\* the scheduled message; a rejected job POST or ten reads without the scheduled
\* message end the process with a non-zero code and without any power reset.
C4_RebootOnlyAfterScheduledJob ==
    /\ (Flow # "reboot_only" /\ (InReboot \/ Resets > 0 \/ sent["GET_system"] > 0))
           => (job_created /\ job_scheduled)
    /\ (sent["POST_job"] > 0 /\ ~job_created)
           => (pc = "exit" /\ exit_code # 0 /\ Resets = 0)
    /\ (Len(job_reads) = retries /\ ~job_scheduled)
           => (pc = "exit" /\ exit_code # 0 /\ Resets = 0)

C4_Witness ==
    /\ Flow = "boot_order"
    /\ job_created /\ job_scheduled
    /\ sent["POST_GracefulRestart"] = 1
    /\ sent["POST_On"] = 1

(***************************************************************************)
(* C5                                                                      *)
(***************************************************************************)
\* C5 as claimed: the job's TargetSettingsURI is the settings URI that was
\* patched earlier in the invocation.
C5_JobTargetsPatchedUri == job_uri # "" => job_uri = patched_uri

\* C5 as amended: the job's TargetSettingsURI is the BIOS settings URI in both
\* flows; the patched URI is the BIOS settings URI after a boot-to change and
\* the boot-sources settings URI after a boot-order change.
C5_JobTargetsBiosUri ==
    job_uri # "" =>
        /\ job_uri = BIOS_URI
        /\ patched_uri = IF Flow = "boot_to" THEN BIOS_URI ELSE BOOT_SOURCES_URI

C5_Witness ==
    /\ Flow = "boot_order"
    /\ patched_uri = BOOT_SOURCES_URI
    /\ patch_status = 200
    /\ job_uri = BIOS_URI
    /\ job_created

(***************************************************************************)
(* C6                                                                      *)
(***************************************************************************)
\* C6: get_job_status makes at most 10 reads; while fewer than 10 reads were
\* made and all returned 200 with another message it goes on polling, and when
\* all 10 did, the process has ended with a non-zero code after exactly 10 reads.
C6_JobStatusBudget ==
    /\ sent["GET_job"] <= retries
    /\ sent["GET_job"] = Len(job_reads)
    /\ (Len(job_reads) \in 1..(retries - 1) /\ AllPending(Len(job_reads)))
           => pc = "get_job_status"
    /\ (Len(job_reads) = retries /\ AllPending(retries))
           => (pc = "exit" /\ exit_code # 0 /\ sent["GET_system"] = 0)

C6_Witness ==
    /\ Len(job_reads) = retries
    /\ AllPending(retries)
    /\ pc = "exit"
    /\ exit_code = 1

(***************************************************************************)
(* C7                                                                      *)
(***************************************************************************)
\* C7: for every k in 1..10, when the first k-1 reads returned 200 with a
\* non-terminal message and the k-th 200 with the scheduled message,
\* get_job_status has returned to main (which goes on to reboot_server) having
\* made exactly k reads.
C7_ScheduledOnKthRead ==
    \A k \in 1..retries :
        (Len(job_reads) >= k /\ AllPending(k - 1) /\ IsScheduled(job_reads[k])) =>
            /\ Len(job_reads) = k
            /\ sent["GET_job"] = k
            /\ job_scheduled
            /\ pc # "get_job_status"
            /\ InReboot \/ sent["GET_system"] > 0

C7_Witness ==
    /\ Len(job_reads) = retries
    /\ AllPending(retries - 1)
    /\ IsScheduled(job_reads[retries])
    /\ pc = "reboot_server"

(***************************************************************************)
(* C8                                                                      *)
(***************************************************************************)
\* C8: a job-status read that returns a status other than 200 is the last
\* request of the invocation: the process has ended with a non-zero code, with
\* no further job-status read and no request of reboot_server.
C8_Non200ReadIsFatal ==
    \A i \in 1..Len(job_reads) :
        job_reads[i][1] # 200 =>
            /\ i = Len(job_reads)
            /\ sent["GET_job"] = i
            /\ pc = "exit" /\ exit_code # 0
            /\ sent["GET_system"] = 0 /\ Resets = 0

C8_Witness ==
    /\ Len(job_reads) = 3
    /\ AllPending(2)
    /\ job_reads[3][1] = 400
    /\ pc = "exit"

(***************************************************************************)
(* C9                                                                      *)
(***************************************************************************)
\* C9 as claimed: a boot-order PATCH is issued only if the reconciliation
\* changed some device's index, and when the desired list is the current order
\* change_boot_order writes nothing and the process exits with code 0.
C9_NoOpWhenOrderMatches ==
    /\ (pc = "change_boot_order_return") =>
           \E j \in 1..Len(devices_read) :
               boot_devices[j].Index # devices_read[j].Index
    /\ (Reconciled /\ DesiredIsCurrent(interfaces, devices_read)) =>
           (pc = "exit" /\ exit_code = 0 /\ NoWrites)

\* C9 as amended: when no name occurs twice in the desired list, a boot-order
\* PATCH is issued only if the index of some device in it differs from the index
\* read; and when the device names are pairwise distinct and the desired list
\* is the current order, change_boot_order writes nothing and the process exits
\* with code 0.
C9_NoOpWhenOrderMatchesUnique ==
    /\ (pc = "change_boot_order_return" /\ UniqueEntries(interfaces)) =>
           \E j \in 1..Len(devices_read) :
               boot_devices[j].Index # devices_read[j].Index
    /\ (Reconciled /\ UniqueNames(devices_read)
           /\ DesiredIsCurrent(interfaces, devices_read)) =>
           (pc = "exit" /\ exit_code = 0 /\ NoWrites)

C9_Witness ==
    /\ Reconciled
    /\ Len(devices_read) = 2 /\ Len(interfaces) = 2
    /\ devices_read[1].Index = 1
    /\ UniqueNames(devices_read)
    /\ DesiredIsCurrent(interfaces, devices_read)
    /\ pc = "exit" /\ exit_code = 0

(***************************************************************************)
(* C10                                                                     *)
(***************************************************************************)
\* C10 as claimed: when the desired list differs from the current order at some
\* position, a patch is emitted whose devices, sorted by index, give the
\* desired list over the overlapping length, and every device whose name is
\* not in the desired list keeps its index.
C10_PatchReproducesDesired ==
    (Reconciled /\ Differs(interfaces, devices_read)) =>
        /\ change /\ sent["PATCH_bootsources"] = 1
        /\ \A i \in 1..Min(Len(interfaces), Len(boot_devices)) :
               SortedNames(boot_devices)[i] = interfaces[i]
        /\ KeepsIndexOfOthers

\* C10 as amended: when the device names are pairwise distinct and the desired
\* list rearranges the devices that hold the first indices, differing from the
\* current order at some position, a patch is emitted whose devices, sorted by
\* index, start with the desired list; and whatever the desired list, every
\* device whose name is not in it keeps its index.
C10_PatchReproducesRearrangement ==
    Reconciled =>
        /\ KeepsIndexOfOthers
        /\ (UniqueNames(devices_read) /\ RearrangesFirst(interfaces, devices_read)
               /\ Differs(interfaces, devices_read)) =>
               /\ change /\ sent["PATCH_bootsources"] = 1
               /\ pc = "change_boot_order_return"
               /\ \A i \in 1..Len(interfaces) :
                      SortedNames(boot_devices)[i] = interfaces[i]

C10_Witness ==
    /\ Reconciled
    /\ Len(devices_read) = 3 /\ Len(interfaces) = 2
    /\ UniqueNames(devices_read)
    /\ RearrangesFirst(interfaces, devices_read)
    /\ Differs(interfaces, devices_read)
    /\ \E j \in 1..3 : devices_read[j].Name \notin NameSet(interfaces)
    /\ pc = "change_boot_order_return"

(***************************************************************************)
(* C11                                                                     *)
(***************************************************************************)
\* C11: check_boot reports a profile only when the devices, sorted by index,
\* carry that profile's names in every one of its first N positions (N the
\* length of the profile's list), and when the order is that of neither
\* profile it reports no match.  Stated for device lists that have at least N
\* devices.
C11_ReportsOnlyFullMatch ==
    /\ (report = "foreman" /\ Len(devices_read) >= Len(definitions.foreman))
           => DesiredIsCurrent(definitions.foreman, devices_read)
    /\ (report = "director" /\ Len(devices_read) >= Len(definitions.director))
           => DesiredIsCurrent(definitions.director, devices_read)
    /\ (/\ pc = "exit"
        /\ definitions.foreman # <<>> /\ definitions.director # <<>>
        /\ Len(devices_read) >= Len(definitions.foreman)
        /\ Len(devices_read) >= Len(definitions.director)
        /\ ~DesiredIsCurrent(definitions.foreman, devices_read)
        /\ ~DesiredIsCurrent(definitions.director, devices_read))
           => report = "no_match"

\* C12: after a graceful restart that was accepted from the On state, the
\* forced power-off is issued only when ten polls have read a state other than
\* Off, and a run whose first ten polls all read a state other than Off comes
\* to its power-On action with exactly one forced power-off behind it.
C12_ForceOffAfterTenPolls ==
    /\ sent["POST_ForceOff"] > 0 => count >= force_off_count
    /\ (/\ initial_state = "On"
        /\ count = force_off_count
        /\ (pc = "power_on" \/ sent["POST_On"] > 0))
           => sent["POST_ForceOff"] = 1

\* C13: when the first power state read is On, the power-On action is issued
\* at most once, only after a read of the power state has returned Off (after
\* the graceful restart or after the forced power-off), never while the state
\* read last is not Off, and exactly once in a run that returns normally.
C13_PowerOnOnlyAfterOff ==
    initial_state = "On" =>
        /\ sent["POST_On"] <= 1
        /\ power_state # "Off" => (sent["POST_On"] = 0 /\ pc # "power_on")
        /\ (pc = "exit" /\ exit_code = 0) => sent["POST_On"] = 1

\* a host that went Off only after the forced power-off was powered on once
C13_Witness ==
    /\ initial_state = "On"
    /\ sent["POST_ForceOff"] = 1
    /\ power_state = "Off"
    /\ sent["POST_On"] = 1
    /\ pc = "exit" /\ exit_code = 0

\* C14: when the first power state read is Off, reboot_server issues one
\* request after the read, the power-On action, with no graceful restart, no
\* forced power-off and no further read of the power state; when the first
\* state read is neither On nor Off it stops with a failure and no power-reset
\* action was issued.
C14_OffOrUnknownFirstState ==
    /\ initial_state = "Off" =>
           /\ sent["GET_system"] = 1
           /\ sent["POST_GracefulRestart"] = 0
           /\ sent["POST_ForceOff"] = 0
           /\ sent["POST_On"] <= 1
           /\ pc = "exit" => sent["POST_On"] = 1
    /\ initial_state \notin {"", "On", "Off"} =>
           /\ pc = "exit" /\ exit_code # 0
           /\ Resets = 0

\* a host found Off was powered on and the run returned
C14_Witness ==
    /\ initial_state = "Off"
    /\ sent["POST_On"] = 1
    /\ pc = "exit" /\ exit_code = 0

\* C15: an answer other than 204 to a power-reset action (graceful restart,
\* forced power-off or power-On) ends the run with a non-zero exit code, and no
\* step of the program, hence no request, follows it.
C15_FailedResetIsFatal ==
    reset_status \notin {0, 204} =>
        /\ pc = "exit" /\ exit_code # 0
        /\ ~ENABLED Next

\* a forced power-off was refused
C15_Witness ==
    /\ sent["POST_ForceOff"] = 1
    /\ sent["POST_On"] = 0
    /\ reset_status \notin {0, 204}
    /\ pc = "exit"

\* C16: the job is created only when the job queue read last was empty: a
\* first read that lists jobs is followed by one DELETE for each job listed and
\* by a second read, and a second read that still lists jobs ends the run with
\* a failure and no job POST.
C16_JobOnlyAfterEmptyQueue ==
    /\ (sent["POST_job"] > 0 \/ pc = "create_bios_config_job") => queue_empty
    /\ sent["DELETE_job"] <= Len(job_queue)
    /\ Len(job_queue) > 0 => (pc = "clear_job_queue" \/ sent["GET_jobs"] = 2)
    /\ sent["GET_jobs"] = 2 =>
           /\ Len(job_queue) > 0
           /\ sent["DELETE_job"] = Len(job_queue)
    /\ (sent["GET_jobs"] = 2 /\ ~queue_empty) =>
           /\ pc = "exit" /\ exit_code # 0
           /\ sent["POST_job"] = 0

\* a queue of two jobs was deleted, read again empty, and the job was created
C16_Witness ==
    /\ Len(job_queue) = MaxJobs
    /\ sent["DELETE_job"] = MaxJobs
    /\ sent["GET_jobs"] = 2
    /\ queue_empty
    /\ sent["POST_job"] = 1

\* C17: a command line that selects the boot inspection (--check-boot without
\* --reboot-only or --boot-to) sends only GET requests, whatever the controller
\* answers and whatever the interfaces file holds: no PATCH, no POST, no DELETE.
C17_CheckBootIsReadOnly ==
    (args.check_boot /\ ~args.reboot_only /\ ~args.boot_to) =>
        /\ NoWrites
        /\ sent["GET_jobs"] = 0 /\ sent["GET_job"] = 0 /\ sent["GET_system"] = 0

\* an inspection against an interfaces file read both resources and reported
C17_Witness ==
    /\ args.check_boot /\ ~args.reboot_only /\ ~args.boot_to
    /\ args.interfaces_path = "present"
    /\ sent["GET_bios"] = 1 /\ sent["GET_bootsources"] = 1
    /\ report \in {"foreman", "director", "no_match"}
    /\ pc = "exit"

\* C18: an input failure (malformed document, missing interfaces file, unknown
\* host type) is met before any request has been sent to the controller, and
\* the program ends with a non-zero exit code.
C18_InputFailureBeforeAnyRequest ==
    failure # "" =>
        /\ \A k \in RequestKinds : sent[k] = 0
        /\ pc = "exit" /\ exit_code # 0

\* C19: the reconciliation finds a desired name at the first device of the
\* controller's list that carries it: a device that has an earlier device of
\* the same name keeps the index it was read with, and a device whose index
\* changed is the first of its name and its name is in the desired list.
C19_LaterDuplicatesKeepIndex ==
    Reconciled =>
        \A j \in 1..Len(devices_read) :
            /\ (\E k \in 1..(j - 1) : devices_read[k].Name = devices_read[j].Name)
                   => boot_devices[j].Index = devices_read[j].Index
            /\ boot_devices[j].Index # devices_read[j].Index
                   => /\ devices_read[j].Name \in NameSet(interfaces)
                      /\ \A k \in 1..(j - 1) :
                             devices_read[k].Name # devices_read[j].Name

\* two devices share a name that is desired, and the first of them was moved
C19_Witness ==
    /\ Reconciled
    /\ pc = "change_boot_order_return"
    /\ \E k, j \in 1..Len(devices_read) :
           /\ k < j
           /\ devices_read[k].Name = devices_read[j].Name
           /\ devices_read[k].Name \in NameSet(interfaces)
           /\ \A m \in 1..(k - 1) : devices_read[m].Name # devices_read[k].Name
           /\ boot_devices[k].Index # devices_read[k].Index

\* C20: the list change_boot_order puts in its patch has the devices that were
\* read, with the same names in the same list order, only Index fields differ;
\* and when the device names are pairwise distinct and the desired list is a
\* permutation of all of them, the resulting indices are pairwise distinct and
\* are exactly 0..n-1.
C20_PatchKeepsDevices ==
    Reconciled =>
        /\ Len(boot_devices) = Len(devices_read)
        /\ \A j \in 1..Len(devices_read) :
               boot_devices[j] =
                   [devices_read[j] EXCEPT !.Index = boot_devices[j].Index]
        /\ (/\ UniqueNames(devices_read)
            /\ Len(interfaces) = Len(devices_read)
            /\ NameSet(interfaces) =
                   {devices_read[j].Name : j \in 1..Len(devices_read)})
               => /\ {boot_devices[j].Index : j \in 1..Len(boot_devices)}
                         = 0..(Len(boot_devices) - 1)
                  /\ \A j, k \in 1..Len(boot_devices) :
                         boot_devices[j].Index = boot_devices[k].Index => j = k

\* three devices of distinct names were put in another order by a patch
C20_Witness ==
    /\ Reconciled
    /\ change /\ pc = "change_boot_order_return"
    /\ Len(devices_read) = MaxReconcile
    /\ UniqueNames(devices_read)
    /\ Len(interfaces) = Len(devices_read)
    /\ NameSet(interfaces) = {devices_read[j].Name : j \in 1..Len(devices_read)}

============================================================================
